---- MODULE Spec2Model ----
(***************************************************************************)
(* Model of SuperFire.py: DownloadWorker.run, get_files_to_download and    *)
(* download_file executed by a ThreadPoolExecutor of num_threads workers.  *)
(***************************************************************************)
EXTENDS Integers, Sequences, FiniteSets, Bags, TLC

\* ---- bounds ---------------------------------------------------------------
\* number of directory entries os.walk may yield under local_root
MaxFiles == 4
\* DownloadWorker(num_threads=...)
num_threads == 2
\* DownloadWorker(max_retries=...)
max_retries == 1
\* directories between local_root and a file
MaxDepth == 2
\* trailing slashes typed after the remote root
MaxSlashes == 2
\* files of the largest tree whose progress values are computed
MaxTotal == 50

\* ---- program constants ----------------------------------------------------
ALLOWED_EXTENSIONS ==
    {".jpg", ".jpeg", ".png", ".gif", ".webp", ".bmp", ".tiff", ".svg"}

status_forcelist == {429, 500, 502, 503, 504}

\* ---- the file system under local_root --------------------------------------
\* extension (as written on disk) of the i-th entry of the walk
WalkExts == <<".txt", ".jpg", ".PNG", ".gif", ".md", ".Svg">>

ExtOf(f) == WalkExts[((f - 1) % Len(WalkExts)) + 1]

\* str.lower() on the extensions that occur
Lower(e) ==
    CASE e = ".PNG" -> ".png"
      [] e = ".Svg" -> ".svg"
      [] OTHER -> e

Files == 1..MaxFiles
Tasks == 0..(MaxFiles - 1)
NoTask == -1

\* ---- responses of one HTTP attempt ------------------------------------------
Resp(code) == [exc |-> FALSE, status |-> code]
ConnError == [exc |-> TRUE, status |-> 0]
Outcomes == {Resp(200), Resp(404), Resp(503), ConnError}

VARIABLES
    root_exists,        \* local_root is an existing directory
    nfiles,             \* number of regular files os.walk yields
    disk,               \* contents of each local file
    runpc,              \* position of run()
    files_to_download,  \* result of get_files_to_download()
    total_files,
    downloaded_files,
    lock,               \* holder of self.lock, NoTask when free
    submitted,          \* number of executor.submit calls made
    queue,              \* executor work queue
    collected,          \* failed futures consumed by as_completed
    pc,                 \* position of each download_file call
    retries,            \* retries used by the request in flight per task
    r,                  \* r.status_code per task (0: no response)
    pct,                \* local pct of download_file
    exc,                \* exception propagating out of download_file
    mk,                 \* outcome of os.makedirs per task
    wres,               \* outcome of the open/iter_content/write block
    progress,           \* values emitted on the progress signal
    status_update,      \* per thread_id: colours emitted on status_update
    log,               \* bag of messages emitted on the log signal
    ui,                 \* what the user entered in the window
    tree,               \* where os.walk finds the file looked at
    startpc,            \* position on the way from the window to the GET
    headers,            \* self.headers of the DownloadWorker
    remote_root,        \* self.remote_root
    remote_url,         \* the file's remote_url from get_files_to_download
    req_headers         \* headers= argument of session.get

\* the state of one run of the worker
runvars == <<root_exists, nfiles, disk, runpc, files_to_download, total_files,
             downloaded_files, lock, submitted, queue, collected, pc,
             retries, r, pct, exc, mk, wres, progress, status_update, log>>

\* the state of the path from start_download to the request of one file
reqvars == <<ui, tree, startpc, headers, remote_root, remote_url,
             req_headers>>

vars == <<runvars, reqvars>>

fsvars == <<root_exists, nfiles>>

\* ---- pure helpers ------------------------------------------------------------
Msg(kind, t) == [kind |-> kind, task |-> t]

\* "Failed: <remote_url> (HTTP <status_code>)"
HttpFailure(t, code) == [kind |-> "HttpFailure", task |-> t, status |-> code]

EmitDropped(m) == log

\* self.log.emit(message)
Emit(m) == log (+) SetToBag({m})

get_files_unfiltered ==
    IF root_exists THEN [i \in 1..nfiles |-> i] ELSE <<>>

\* os.walk + extension filter
get_files_to_download ==
    IF root_exists
    THEN SelectSeq([i \in 1..nfiles |-> i],
                   LAMBDA f : Lower(ExtOf(f)) \in ALLOWED_EXTENSIONS)
    ELSE <<>>

\* self.total_files = len(files_to_download)
TotalFiles(fl) == Len(fl)

\* thread_id passed to download_file: i % self.num_threads
thread_id(i) == i % num_threads

\* urllib3 Retry.is_retry / is_exhausted with total=connect=read=status=max_retries
IsRetry(o) == o.exc \/ o.status \in status_forcelist

RetriesLeftOffByOne(done) == done <= max_retries

\* Retry.increment: a retry is granted while the budget is not used up
RetriesLeft(done) == done < max_retries

IsOkAnyStatus(code) == code >= 200

\* if r.status_code == 200
IsOk(code) == code = 200

\* ---- Python float arithmetic (IEEE-754 binary64, round to nearest even) ------
\* A float is [m, scale]: the bit string m (most significant bit first) read
\* as an integer, divided by 2^scale.
Prec == 53

FracLen == Prec + 11

\* width of the limbs the product is computed in
LimbLen == (Prec + 1) \div 3

Base == 2^LimbLen

Zeros(k) == [i \in 1..k |-> 0]

\* v as a bit string of width w
IntToBits(v, w) == [i \in 1..w |-> (v \div 2^(w - i)) % 2]

RECURSIVE BitsToInt(_)
BitsToInt(b) ==
    IF Len(b) = 0 THEN 0
    ELSE IF Len(b) = 1 THEN b[1]
    ELSE BitsToInt(SubSeq(b, 1, Len(b) \div 2)) * 2^(Len(b) - Len(b) \div 2)
         + BitsToInt(SubSeq(b, Len(b) \div 2 + 1, Len(b)))

\* b without its leading zero bits
Strip(b) ==
    LET ones == {i \in 1..Len(b) : b[i] = 1}
    IN  IF ones = {} THEN <<>>
        ELSE SubSeq(b, CHOOSE i \in ones : \A j \in ones : i <= j, Len(b))

SqMod(h, odd, n) == (((h * h) % n) * (1 + odd)) % n

\* 2^k mod n
RECURSIVE Pow2Mod(_, _)
Pow2Mod(k, n) ==
    IF k = 0 THEN 1 % n ELSE SqMod(Pow2Mod(k \div 2, n), k % 2, n)

\* what is left of rem / n after its first k bits (rem < n)
FracRem(rem, n, k) == (rem * Pow2Mod(k, n)) % n

\* the first k bits of rem / n after the binary point (rem < n)
FracBits(rem, n, k) ==
    [i \in 1..k |-> IF 2 * FracRem(rem, n, i - 1) >= n THEN 1 ELSE 0]

\* m + 1
Incr(m) ==
    LET zs == {i \in 1..Len(m) : m[i] = 0}
    IN  IF zs = {} THEN <<1>> \o Zeros(Len(m))
        ELSE LET z == CHOOSE i \in zs : \A j \in zs : j <= i
             IN  [i \in 1..Len(m) |->
                     IF i < z THEN m[i] ELSE IF i = z THEN 1 ELSE 0]

\* round the exact value b / 2^scale (plus a sticky rest) to Prec bits
Round(b, sticky, scale) ==
    IF Len(b) <= Prec THEN [m |-> b, scale |-> scale]
    ELSE LET m == SubSeq(b, 1, Prec)
             st == sticky \/ \E i \in (Prec + 2)..Len(b) : b[i] = 1
             up == b[Prec + 1] = 1 /\ (st \/ m[Prec] = 1)
         IN  [m |-> IF up THEN Incr(m) ELSE m,
              scale |-> scale - (Len(b) - Prec)]

\* d / n
FDiv(d, n) ==
    Round(Strip(IntToBits(d \div n, 31) \o FracBits(d % n, n, FracLen)),
          FracRem(d % n, n, FracLen) # 0, FracLen)

\* the bit string of m * 100, for m of at most 3 limbs
Times100(m) ==
    LET pad == Zeros(3 * LimbLen - Len(m)) \o m
        lo == 100 * BitsToInt(SubSeq(pad, 2 * LimbLen + 1, 3 * LimbLen))
        mid == 100 * BitsToInt(SubSeq(pad, LimbLen + 1, 2 * LimbLen))
                 + lo \div Base
        hi == 100 * BitsToInt(SubSeq(pad, 1, LimbLen)) + mid \div Base
    IN  Strip(IntToBits(hi, LimbLen + 7) \o IntToBits(mid % Base, LimbLen)
              \o IntToBits(lo % Base, LimbLen))

\* x * 100
FMul100(x) == Round(Times100(x.m), FALSE, x.scale)

\* int(x) for x >= 0
Trunc(x) ==
    IF Len(x.m) <= x.scale THEN 0
    ELSE BitsToInt(SubSeq(x.m, 1, Len(x.m) - x.scale))

\* int((d / n) * 100) in float arithmetic
FloatPct(d, n) == Trunc(FMul100(FDiv(d, n)))

\* the values of FloatPct the runs of this model can ask for, computed once
PctTable ==
    [n \in 1..(MaxFiles + 1) |-> [d \in 0..(2 * MaxFiles + 2) |-> FloatPct(d, n)]]

\* pct = int((self.downloaded_files / self.total_files) * 100)
Pct(d, n) ==
    IF n \in DOMAIN PctTable /\ d \in DOMAIN PctTable[n]
    THEN PctTable[n][d] ELSE FloatPct(d, n)

LockFreeBroken(l) == TRUE

\* threading.Lock can be acquired
LockFree(l) == l = NoTask

IncrementTwice(d) == d + 2

\* self.downloaded_files += 1
Increment(d) == d + 1

Running(t) == pc[t] \notin {"new", "queued", "done", "raised"}

FinishedEarly(t) == TRUE

\* future.done(): the call returned or raised
Finished(t) == pc[t] \in {"done", "raised"}

\* the indices enumerate(files_to_download) yields
Dispatched == 0..(Len(files_to_download) - 1)

\* ---- text ---------------------------------------------------------------------------
\* A str is a sequence of tokens: each of the characters / \ : ? # and the
\* blank is a token of its own, any other token is a run of other characters.
Specials == {"/", "\\", ":", "?", "#", " "}

Repeat(tok, k) == [i \in 1..k |-> tok]

\* index of the first token of s that is in toks, Len(s) + 1 when none is
FirstIn(s, toks) ==
    IF \E i \in 1..Len(s) : s[i] \in toks
    THEN CHOOSE i \in 1..Len(s) :
             s[i] \in toks /\ \A j \in 1..(i - 1) : s[j] \notin toks
    ELSE Len(s) + 1

\* index of the last token of s that is not in toks, 0 when none is
LastNotIn(s, toks) ==
    IF \E i \in 1..Len(s) : s[i] \notin toks
    THEN CHOOSE i \in 1..Len(s) :
             s[i] \notin toks /\ \A j \in (i + 1)..Len(s) : s[j] \in toks
    ELSE 0

\* index of the first token of s that is not in toks, Len(s) + 1 when none is
FirstNotIn(s, toks) ==
    IF \E i \in 1..Len(s) : s[i] \notin toks
    THEN CHOOSE i \in 1..Len(s) :
             s[i] \notin toks /\ \A j \in 1..(i - 1) : s[j] \in toks
    ELSE Len(s) + 1

\* index of the last token of s that is in toks, 0 when none is
LastIn(s, toks) ==
    IF \E i \in 1..Len(s) : s[i] \in toks
    THEN CHOOSE i \in 1..Len(s) :
             s[i] \in toks /\ \A j \in (i + 1)..Len(s) : s[j] \notin toks
    ELSE 0

\* str.strip()
strip(s) == SubSeq(s, FirstNotIn(s, {" "}), LastNotIn(s, {" "}))

\* str.rstrip("/")
rstrip(s) == SubSeq(s, 1, LastNotIn(s, {"/"}))

\* str.replace("\\", "/")
replace(s) == [i \in 1..Len(s) |-> IF s[i] = "\\" THEN "/" ELSE s[i]]

\* ---- dict -------------------------------------------------------------------------
\* the value True
PyTrue == <<"True">>

EmptyDict == [k \in {} |-> <<>>]

\* d[k] = v
SetItem(d, k, v) == [x \in DOMAIN d \cup {k} |-> IF x = k THEN v ELSE d[x]]

\* del d[k]
DelItem(d, k) == [x \in DOMAIN d \ {k} |-> d[x]]

\* truth value of d.get(k)
GetTruthy(d, k) == k \in DOMAIN d /\ d[k] # <<>>

\* d.setdefault(k, v)
setdefault(d, k, v) == IF k \in DOMAIN d THEN d ELSE SetItem(d, k, v)

\* ---- the window ---------------------------------------------------------------------
UA_PRESETS ==
    [c \in {"Chrome (Windows 10)", "Requests default", "Custom"} |->
        CASE c = "Chrome (Windows 10)" -> <<"Mozilla", "/", "5.0">>
          [] c = "Requests default" -> <<"python-requests", "/", "2.x">>
          [] OTHER -> <<>>]

\* remote roots a user types, before any trailing slash
RemoteBases ==
    { <<>>,
      <<"http", ":", "/", "/", "h">>,
      <<"https", ":", "/", "/", "h", "/", "p">>,
      <<"h", "/", "p">> }

RefererTexts == { <<>>, <<"http", ":", "/", "/", "ref", "/">> }

\* self.remote_input.text()
remote_input(u) ==
    u.remote_base \o Repeat("/", u.remote_slashes)
        \o (IF u.remote_padded THEN <<" ">> ELSE <<>>)

Windows ==
    [ remote_base : RemoteBases,
      remote_slashes : 0..MaxSlashes,
      remote_padded : BOOLEAN,
      ua_choice : DOMAIN UA_PRESETS,
      ua_custom : {<<>>},
      referer_input : RefererTexts,
      cb_dynamic_ref : BOOLEAN,
      cb_identity : BOOLEAN,
      cb_conn_close : BOOLEAN ]

\* ---- the tree under local_root ---------------------------------------------------------
\* os.sep and the local root of each platform
Sep(os) == IF os = "nt" THEN "\\" ELSE "/"

LocalRoot(os) == IF os = "nt" THEN <<"C", ":", "\\", "r">> ELSE <<"/", "r">>

\* a backslash is an ordinary character of a POSIX file name
FileNames(os) ==
    IF os = "nt" THEN { <<"a.jpg">> }
    ELSE { <<"a.jpg">>, <<"a", "\\", "b.jpg">> }

\* the file sits depth directories named d below local_root
Trees ==
    UNION { [os : {o}, depth : 0..MaxDepth, file : FileNames(o)] :
                o \in {"posix", "nt"} }

\* root as os.walk yields it for the directory of the file
WalkRoot(tr) ==
    LocalRoot(tr.os) \o
        [i \in 1..(2 * tr.depth) |-> IF i % 2 = 1 THEN Sep(tr.os) ELSE "d"]

\* os.path.join(root, file)
join(root, file, os) == root \o <<Sep(os)>> \o file

\* os.path.relpath(path, start) for a path below start
relpath(path, start) == SubSeq(path, Len(start) + 2, Len(path))

\* lines 124-126
RemoteUrl(root, tr) ==
    LET local_path == join(WalkRoot(tr), tr.file, tr.os)
        relative_path == replace(relpath(local_path, LocalRoot(tr.os)))
    IN  root \o <<"/">> \o relative_path

\* ---- urllib.parse ------------------------------------------------------------------------
uses_netloc == {"http", "https"}

urlsplit(url) ==
    LET colon == FirstIn(url, {":"})
        has_scheme == colon = 2 /\ url[1] \notin Specials
        rest == IF has_scheme THEN SubSeq(url, 3, Len(url)) ELSE url
        has_netloc == Len(rest) >= 2 /\ rest[1] = "/" /\ rest[2] = "/"
        after == SubSeq(rest, 3, Len(rest))
        delim == FirstIn(after, {"/", "?", "#"})
        tail == IF has_netloc THEN SubSeq(after, delim, Len(after)) ELSE rest
    IN  [ scheme |-> IF has_scheme THEN <<url[1]>> ELSE <<>>,
          netloc |-> IF has_netloc THEN SubSeq(after, 1, delim - 1) ELSE <<>>,
          path |-> SubSeq(tail, 1, FirstIn(tail, {"?", "#"}) - 1) ]

\* urlunsplit((scheme, netloc, path, "", ""))
urlunsplit(scheme, netloc, path) ==
    LET slashed == IF path # <<>> /\ path[1] # "/" THEN <<"/">> \o path
                   ELSE path
        url == IF \/ netloc # <<>>
                  \/ /\ scheme # <<>>
                     /\ scheme[1] \in uses_netloc
                     /\ SubSeq(path, 1, 2) # <<"/", "/">>
               THEN <<"/", "/">> \o netloc \o slashed
               ELSE path
    IN  IF scheme # <<>> THEN scheme \o <<":">> \o url ELSE url

\* "/".join(path.split("/")[:-1]) + "/"
Folder(path) ==
    IF LastIn(path, {"/"}) = 0 THEN <<"/">>
    ELSE SubSeq(path, 1, LastIn(path, {"/"}))

\* ---- headers -------------------------------------------------------------------------
Markers == {"_dynamic_referer", "_identity_encoding", "_connection_close"}

start_download_headers_both(u) ==
    LET user_agent == IF u.ua_choice = "Custom" THEN strip(u.ua_custom)
                      ELSE UA_PRESETS[u.ua_choice]
        h1 == IF user_agent # <<>> /\ user_agent # UA_PRESETS["Requests default"]
              THEN SetItem(EmptyDict, "User-Agent", user_agent)
              ELSE EmptyDict
        h2 == IF strip(u.referer_input) # <<>>
              THEN SetItem(h1, "Referer", strip(u.referer_input))
              ELSE h1
        h3 == IF u.cb_dynamic_ref
              THEN SetItem(h2, "_dynamic_referer", PyTrue)
              ELSE h2
        h4 == IF u.cb_identity THEN SetItem(h3, "_identity_encoding", PyTrue)
              ELSE h3
    IN  IF u.cb_conn_close THEN SetItem(h4, "_connection_close", PyTrue)
        ELSE h4

\* start_download, lines 286-304: the headers built from the window
start_download_headers(u) ==
    LET user_agent == IF u.ua_choice = "Custom" THEN strip(u.ua_custom)
                      ELSE UA_PRESETS[u.ua_choice]
        h1 == IF user_agent # <<>> /\ user_agent # UA_PRESETS["Requests default"]
              THEN SetItem(EmptyDict, "User-Agent", user_agent)
              ELSE EmptyDict
        h2 == IF strip(u.referer_input) # <<>>
              THEN SetItem(h1, "Referer", strip(u.referer_input))
              ELSE IF u.cb_dynamic_ref
                   THEN SetItem(h1, "_dynamic_referer", PyTrue)
                   ELSE h1
        h3 == IF u.cb_identity THEN SetItem(h2, "_identity_encoding", PyTrue)
              ELSE h2
    IN  IF u.cb_conn_close THEN SetItem(h3, "_connection_close", PyTrue)
        ELSE h3

\* the default Accept value of lines 92-95, abbreviated
DefaultAccept == <<"image", "/", "*">>

\* __init__, lines 61 and 81-95: self.headers
init_headers(hdrs) ==
    LET h1 == IF GetTruthy(hdrs, "_identity_encoding")
              THEN DelItem(SetItem(hdrs, "Accept-Encoding", <<"identity">>),
                           "_identity_encoding")
              ELSE hdrs
        h2 == IF GetTruthy(h1, "_connection_close")
              THEN DelItem(SetItem(h1, "Connection", <<"close">>),
                           "_connection_close")
              ELSE h1
    IN  setdefault(h2, "Accept", DefaultAccept)

\* download_file, lines 139-151: req_headers (urlsplit raises on none of
\* the URLs that occur)
request_headers(hdrs, url) ==
    IF GetTruthy(hdrs, "_dynamic_referer")
    THEN LET parts == urlsplit(url)
             referer == urlunsplit(parts.scheme, parts.netloc,
                                   Folder(parts.path))
         IN  DelItem(SetItem(hdrs, "Referer", referer), "_dynamic_referer")
    ELSE hdrs

\* ---- initial state -------------------------------------------------------------
\* __init__, lines 57-58, and no progress emitted
InitCounters ==
    /\ total_files = 0
    /\ downloaded_files = 0
    /\ progress = <<>>

\* nothing submitted to the executor yet
InitPool ==
    /\ disk = [f \in Files |-> "old"]
    /\ runpc = "start"
    /\ files_to_download = <<>>
    /\ lock = NoTask
    /\ submitted = 0
    /\ queue = <<>>
    /\ collected = {}
    /\ pc = [t \in Tasks |-> "new"]
    /\ retries = [t \in Tasks |-> 0]
    /\ r = [t \in Tasks |-> 0]
    /\ pct = [t \in Tasks |-> 0]
    /\ exc = [t \in Tasks |-> "none"]
    /\ mk = [t \in Tasks |-> "none"]
    /\ wres = [t \in Tasks |-> "none"]
    /\ status_update = [s \in 0..(num_threads - 1) |-> <<>>]
    /\ log = EmptyBag

\* the worker was started; the window and the request headers are not looked at
InitStarted ==
    /\ ui = [ remote_base |-> <<"http", ":", "/", "/", "h">>,
              remote_slashes |-> 0, remote_padded |-> FALSE,
              ua_choice |-> "Requests default", ua_custom |-> <<>>,
              referer_input |-> <<>>, cb_dynamic_ref |-> FALSE,
              cb_identity |-> FALSE, cb_conn_close |-> FALSE ]
    /\ tree = [os |-> "posix", depth |-> 0, file |-> <<"a.jpg">>]
    /\ startpc = "running"
    /\ headers = EmptyDict
    /\ remote_root = <<>>
    /\ remote_url = <<>>
    /\ req_headers = EmptyDict

Init ==
    /\ root_exists \in BOOLEAN
    /\ nfiles \in 0..MaxFiles
    /\ (~root_exists => nfiles = 0)
    /\ InitPool
    /\ InitCounters
    /\ InitStarted

\* ---- run() -----------------------------------------------------------------------
\* lines 98-104: scan, set total_files, return at once when there is nothing
RunStart ==
    /\ runpc = "start"
    /\ files_to_download' = get_files_to_download
    /\ total_files' = TotalFiles(get_files_to_download)
    /\ IF TotalFiles(get_files_to_download) = 0
       THEN /\ log' = Emit(Msg("NoFiles", NoTask))
            /\ progress' = Append(progress, 100)
            /\ runpc' = "done"
       ELSE /\ runpc' = "submit"
            /\ UNCHANGED <<log, progress>>
    /\ UNCHANGED reqvars
    /\ UNCHANGED <<fsvars, disk, downloaded_files, lock, submitted, queue,
                   collected, pc, retries, r, pct, exc, mk, wres,
                   status_update>>

\* lines 107-110: executor.submit(self.download_file, file_info, i % N)
Submit ==
    /\ runpc = "submit"
    /\ submitted < Len(files_to_download)
    /\ queue' = Append(queue, submitted)
    /\ pc' = [pc EXCEPT ![submitted] = "queued"]
    /\ submitted' = submitted + 1
    /\ runpc' = IF submitted + 1 = Len(files_to_download)
                 THEN "collect" ELSE "submit"
    /\ UNCHANGED reqvars
    /\ UNCHANGED <<fsvars, disk, files_to_download, total_files,
                   downloaded_files, lock, collected, retries, r, pct, exc,
                   mk, wres, progress, status_update, log>>

\* lines 111-115: as_completed yields a finished future. future.result() of
\* a call that returned changes nothing; of one that raised, it raises and
\* the error is logged
Collect(t) ==
    /\ runpc = "collect"
    /\ t \in Dispatched
    /\ pc[t] = "raised"
    /\ t \notin collected
    /\ collected' = collected \cup {t}
    /\ log' = Emit(Msg("Unhandled", t))
    /\ UNCHANGED reqvars
    /\ UNCHANGED <<fsvars, disk, runpc, files_to_download, total_files,
                   downloaded_files, lock, submitted, queue, pc, retries, r,
                   pct, exc, mk, wres, progress, status_update>>

\* line 106: every future has been consumed; leaving the with-block
\* (shutdown(wait=True)) and returning
RunReturn ==
    /\ runpc = "collect"
    /\ \A t \in Dispatched : Finished(t) /\ (pc[t] = "raised" => t \in collected)
    /\ runpc' = "done"
    /\ UNCHANGED reqvars
    /\ UNCHANGED <<fsvars, disk, files_to_download, total_files,
                   downloaded_files, lock, submitted, queue, collected, pc,
                   retries, r, pct, exc, mk, wres, progress, status_update,
                   log>>

\* ---- download_file() ----------------------------------------------------------------
\* a pool thread takes the oldest work item; lines 131-135
BeginDownload(t) ==
    /\ pc[t] = "queued"
    /\ queue # <<>>
    /\ Head(queue) = t
    /\ Cardinality({u \in Tasks : Running(u)}) < num_threads
    /\ queue' = Tail(queue)
    /\ status_update' = [status_update EXCEPT ![thread_id(t)] =
                            Append(@, "red")]
    /\ \E ok \in BOOLEAN :
         IF ok
         THEN /\ mk' = [mk EXCEPT ![t] = "ok"]
              /\ pc' = [pc EXCEPT ![t] = "get"]
              /\ exc' = exc
         ELSE \* os.makedirs raises outside the try block
              /\ mk' = [mk EXCEPT ![t] = "fail"]
              /\ pc' = [pc EXCEPT ![t] = "raised"]
              /\ exc' = [exc EXCEPT ![t] = "OSError"]
    /\ UNCHANGED reqvars
    /\ UNCHANGED <<fsvars, disk, runpc, files_to_download, total_files,
                   downloaded_files, lock, submitted, collected, retries, r,
                   pct, wres, progress, log>>

\* lines 153-176: one attempt of session.get under the Retry policy, then the
\* branch on r.status_code or the except clause. The Retry history lives as
\* long as the request and its response do.
Get(t) ==
    /\ pc[t] = "get"
    /\ \E o \in Outcomes :
         IF IsRetry(o) /\ RetriesLeft(retries[t])
         THEN /\ retries' = [retries EXCEPT ![t] = @ + 1]
              /\ UNCHANGED <<pc, r, log>>
         ELSE IF o.exc
         THEN \* MaxRetryError surfaces as requests.exceptions.RequestException
              /\ log' = Emit(Msg("TransportFailure", t))
              /\ pc' = [pc EXCEPT ![t] = "finally"]
              /\ retries' = [retries EXCEPT ![t] = 0]
              /\ r' = r
         ELSE /\ r' = [r EXCEPT ![t] = o.status]
              /\ IF IsOk(o.status)
                 THEN /\ pc' = [pc EXCEPT ![t] = "write"]
                      /\ UNCHANGED <<log, retries>>
                 ELSE /\ pc' = [pc EXCEPT ![t] = "finally"]
                      /\ retries' = [retries EXCEPT ![t] = 0]
                      /\ log' = Emit(HttpFailure(t, o.status))
    /\ UNCHANGED reqvars
    /\ UNCHANGED <<fsvars, disk, runpc, files_to_download, total_files,
                   downloaded_files, lock, submitted, queue, collected, pct,
                   exc, mk, wres, progress, status_update>>

\* lines 162-165: open(local_path, "wb") and stream the body into it
WriteFile(t) ==
    /\ pc[t] = "write"
    /\ \E w \in {"ok", "openfail", "readerr", "writeerr"} :
         /\ wres' = [wres EXCEPT ![t] = w]
         /\ disk' = [disk EXCEPT ![files_to_download[t + 1]] =
                        CASE w = "ok" -> "new"
                          [] w = "openfail" -> @
                          [] OTHER -> "partial"]
         /\ pc' = [pc EXCEPT ![t] = IF w = "ok" THEN "lock" ELSE "finally"]
         /\ exc' = [exc EXCEPT ![t] =
                        IF w \in {"openfail", "writeerr"} THEN "OSError" ELSE @]
         /\ log' = IF w = "readerr" THEN Emit(Msg("TransportFailure", t))
                   ELSE log
    /\ retries' = [retries EXCEPT ![t] = 0]
    /\ UNCHANGED reqvars
    /\ UNCHANGED <<fsvars, runpc, files_to_download, total_files,
                   downloaded_files, lock, submitted, queue, collected, r,
                   pct, mk, progress, status_update>>

\* lines 167-169: with self.lock, count the download and compute pct
Acquire(t) ==
    /\ pc[t] = "lock"
    /\ LockFree(lock)
    /\ lock' = t
    /\ downloaded_files' = Increment(downloaded_files)
    /\ pct' = [pct EXCEPT ![t] = Pct(Increment(downloaded_files), total_files)]
    /\ pc' = [pc EXCEPT ![t] = "emit"]
    /\ UNCHANGED reqvars
    /\ UNCHANGED <<fsvars, disk, runpc, files_to_download, total_files,
                   submitted, queue, collected, retries, r, exc, mk, wres,
                   progress, status_update, log>>

\* lines 170-171 and the release of self.lock
EmitProgress(t) ==
    /\ pc[t] = "emit"
    /\ progress' = Append(progress, pct[t])
    /\ log' = Emit(Msg("Success", t))
    /\ lock' = NoTask
    /\ pct' = [pct EXCEPT ![t] = 0]
    /\ pc' = [pc EXCEPT ![t] = "finally"]
    /\ UNCHANGED reqvars
    /\ UNCHANGED <<fsvars, disk, runpc, files_to_download, total_files,
                   downloaded_files, submitted, queue, collected, retries, r,
                   exc, mk, wres, status_update>>

\* lines 177-179: finally, with self.lock, emit green; the lock is released
\* and the call returns or re-raises
EmitGreen(t) ==
    /\ pc[t] = "finally"
    /\ LockFree(lock)
    /\ status_update' = [status_update EXCEPT ![thread_id(t)] =
                            Append(@, "green")]
    /\ pc' = [pc EXCEPT ![t] = IF exc[t] = "none" THEN "done" ELSE "raised"]
    /\ UNCHANGED reqvars
    /\ UNCHANGED <<fsvars, disk, runpc, files_to_download, total_files,
                   downloaded_files, lock, submitted, queue, collected,
                   retries, r, pct, exc, mk, wres, progress, log>>

Next ==
    \/ RunStart
    \/ Submit
    \/ RunReturn
    \/ \E t \in Tasks : Collect(t)
    \/ \E t \in Tasks : BeginDownload(t)
    \/ \E t \in Tasks : Get(t)
    \/ \E t \in Tasks : WriteFile(t)
    \/ \E t \in Tasks : Acquire(t)
    \/ \E t \in Tasks : EmitProgress(t)
    \/ \E t \in Tasks : EmitGreen(t)

Spec == Init /\ [][Next]_vars

\* behaviours in which every thread that can take a step eventually does
FairSpec == Spec /\ WF_vars(Next)

\* ---- from the window to the request of one file ------------------------------------
RequestInit ==
    /\ root_exists = TRUE
    /\ nfiles = 1
    /\ InitPool
    /\ InitCounters
    /\ ui \in Windows
    /\ tree \in Trees
    /\ startpc = "window"
    /\ headers = EmptyDict
    /\ remote_root = <<>>
    /\ remote_url = <<>>
    /\ req_headers = EmptyDict

\* start_download, lines 279-321, with DownloadWorker.__init__, lines 52-95
start_download ==
    /\ startpc = "window"
    /\ IF strip(remote_input(ui)) = <<>>
       THEN /\ startpc' = "rejected"
            /\ UNCHANGED <<headers, remote_root>>
       ELSE /\ startpc' = "started"
            /\ headers' = init_headers(start_download_headers(ui))
            /\ remote_root' = rstrip(strip(remote_input(ui)))
    /\ UNCHANGED <<ui, tree, remote_url, req_headers>>
    /\ UNCHANGED runvars

\* get_files_to_download, lines 120-127, for the file of the tree
MapFile ==
    /\ startpc = "started"
    /\ remote_url' = RemoteUrl(remote_root, tree)
    /\ startpc' = "mapped"
    /\ UNCHANGED <<ui, tree, headers, remote_root, req_headers>>
    /\ UNCHANGED runvars

\* download_file, lines 139-159: the headers= argument of session.get
BuildRequest ==
    /\ startpc = "mapped"
    /\ req_headers' = request_headers(headers, remote_url)
    /\ startpc' = "requested"
    /\ UNCHANGED <<ui, tree, headers, remote_root, remote_url>>
    /\ UNCHANGED runvars

RequestNext ==
    \/ start_download
    \/ MapFile
    \/ BuildRequest

RequestSpec == RequestInit /\ [][RequestNext]_vars

\* ---- the progress values of a run whose downloads all succeed ------------------------
PctInit ==
    /\ root_exists = TRUE
    /\ nfiles \in 1..MaxTotal
    /\ total_files = nfiles
    /\ downloaded_files = 0
    /\ progress = <<>>
    /\ InitPool
    /\ InitStarted

\* lines 167-170, one worker after the other
CountDownload ==
    /\ downloaded_files < total_files
    /\ downloaded_files' = Increment(downloaded_files)
    /\ progress' = Append(progress,
                          Pct(Increment(downloaded_files), total_files))
    /\ UNCHANGED <<fsvars, disk, runpc, files_to_download, total_files, lock,
                   submitted, queue, collected, pc, retries, r, pct, exc, mk,
                   wres, status_update, log>>
    /\ UNCHANGED reqvars

PctNext == CountDownload

PctSpec == PctInit /\ [][PctNext]_vars

\* ---- vocabulary of the properties -------------------------------------------------
Logged(m) == CopiesIn(m, log)

Greens(s) == Cardinality({i \in 1..Len(status_update[s]) :
                             status_update[s][i] = "green"})

Reds(s) == Cardinality({i \in 1..Len(status_update[s]) :
                           status_update[s][i] = "red"})

Slots == 0..(num_threads - 1)

AssignedTo(s) == {t \in Dispatched : thread_id(t) = s}

\* download_file(t) entered and has left its try block
Settled(t) == pc[t] \in {"finally", "done", "raised"} /\ mk[t] = "ok"

\* the task ended in a failure of any kind
Failed(t) ==
    \/ mk[t] = "fail"
    \/ r[t] \notin {0, 200}
    \/ exc[t] # "none"
    \/ Logged(Msg("TransportFailure", t)) > 0

\* the task fetched and stored its file
Stored(t) == mk[t] = "ok" /\ r[t] = 200 /\ wres[t] = "ok"

HttpFailures(t) ==
    Cardinality({c \in {404, 503} : Logged(HttpFailure(t, c)) > 0})

\* ---- C1 ---------------------------------------------------------------------------
\* C1: in every reachable state, downloaded_files is at most total_files.
C1_CountAtMostTotal == downloaded_files <= total_files

C1_Witness == total_files = 3 /\ downloaded_files = 3 /\ runpc = "collect"

\* ---- C2 ---------------------------------------------------------------------------
\* C2: the values emitted on the progress signal form a non-decreasing
\* sequence, whatever the interleaving of the workers.
C2_ProgressNonDecreasing ==
    \A i, j \in 1..Len(progress) : i <= j => progress[i] <= progress[j]

C2_Witness ==
    /\ Len(progress) = 3
    /\ progress[1] < progress[3]
    /\ \E t \in Tasks : pc[t] = "finally" /\ wres[t] = "ok"

\* ---- C3 ---------------------------------------------------------------------------
\* C3: every execution of download_file emits green for its slot on every
\* exit path, so once run has returned each slot has as many green events as
\* tasks assigned to it and as many green as red events.
C3_IdlePerAssignedTask ==
    runpc = "done" =>
        \A s \in Slots : /\ Greens(s) = Cardinality(AssignedTo(s))
                         /\ Greens(s) = Reds(s)

\* ---- C4 ---------------------------------------------------------------------------
\* C4: a slot processes one task at a time: two tasks with the same slot id
\* are never executing download_file at the same moment.
C4_OneTaskPerSlot ==
    \A t, u \in Tasks :
        (t # u /\ thread_id(t) = thread_id(u)) => ~(Running(t) /\ Running(u))

\* ---- C5 ---------------------------------------------------------------------------
\* C5 as stated: when run has returned and every task ended with status 404
\* or 200, downloaded_files is the number of tasks that returned 200 and each
\* 404 task has exactly one HttpFailure(404) event.
C5_AsStated ==
    (runpc = "done" /\ \A t \in Dispatched : r[t] \in {200, 404}) =>
        /\ downloaded_files = Cardinality({t \in Dispatched : r[t] = 200})
        /\ \A t \in Dispatched :
             Logged(HttpFailure(t, 404)) = (IF r[t] = 404 THEN 1 ELSE 0)

\* C5 amended: when run has returned and every task either ended with status
\* 404 or returned 200 and had its body written without error, then
\* downloaded_files is the number of 200 tasks, each 404 task has exactly one
\* HttpFailure(404) event and no other task has one.
C5_CountsSuccessesOnly ==
    (runpc = "done" /\ \A t \in Dispatched : r[t] = 404 \/ Stored(t)) =>
        /\ downloaded_files = Cardinality({t \in Dispatched : r[t] = 200})
        /\ \A t \in Dispatched :
             /\ Logged(HttpFailure(t, 404)) = (IF r[t] = 404 THEN 1 ELSE 0)
             /\ Logged(HttpFailure(t, 503)) = 0

C5_Witness ==
    /\ runpc = "done"
    /\ total_files = 3
    /\ \A t \in Dispatched : r[t] = 404 \/ Stored(t)
    /\ Cardinality({t \in Dispatched : r[t] = 404}) = 2
    /\ downloaded_files = 1

\* ---- C6 ---------------------------------------------------------------------------
\* C6: in a run with total_files > 0 in which some task has failed, no
\* progress event carries the value 100.
C6_NoFullProgressAfterFailure ==
    (total_files > 0 /\ \E t \in Dispatched : Failed(t)) =>
        \A i \in 1..Len(progress) : progress[i] # 100

C6_Witness ==
    /\ runpc = "done"
    /\ total_files = 3
    /\ downloaded_files = 2
    /\ Len(progress) = 2
    /\ \E t \in Dispatched : Failed(t)

\* ---- C7 ---------------------------------------------------------------------------
\* C7: a run with total_files > 0 in which every task fetched 200 and stored
\* its file returns with downloaded_files = total_files and 100 as the last
\* progress value; and every run returns.
C7_AllOkReaches100 ==
    /\ <>(runpc = "done")
    /\ []((runpc = "done" /\ total_files > 0
             /\ \A t \in Dispatched : Stored(t)) =>
            /\ downloaded_files = total_files
            /\ Len(progress) = total_files
            /\ progress[Len(progress)] = 100)

C7_Witness ==
    /\ runpc = "done"
    /\ total_files = 3
    /\ \A t \in Dispatched : Stored(t)

\* ---- C8 ---------------------------------------------------------------------------
\* the scan finds nothing: no root directory, or no file with an allowed
\* extension
NothingToDownload ==
    ~root_exists \/ \A f \in 1..nfiles : Lower(ExtOf(f)) \notin ALLOWED_EXTENSIONS

\* C8: when the scan finds nothing, run emits exactly one progress event (100)
\* and one log event, no status event, dispatches nothing and returns.
C8_EmptyRun ==
    (runpc # "start" /\ NothingToDownload) =>
        /\ runpc = "done"
        /\ total_files = 0
        /\ progress = <<100>>
        /\ log = SetToBag({Msg("NoFiles", NoTask)})
        /\ \A s \in Slots : status_update[s] = <<>>
        /\ queue = <<>> /\ submitted = 0
        /\ \A t \in Tasks : pc[t] = "new"

C8_Witness ==
    runpc = "done" /\ root_exists /\ nfiles = 1 /\ progress = <<100>>

\* ---- C9 ---------------------------------------------------------------------------
\* the retry budget of the task ran out: its last attempt failed retryably
Exhausted(t) == Settled(t) /\ (r[t] = 0 \/ r[t] \in status_forcelist)

\* C9 as stated: a task whose retry budget is exhausted emits exactly one
\* TransportFailure event.
C9_AsStated ==
    \A t \in Tasks : Exhausted(t) => Logged(Msg("TransportFailure", t)) = 1

\* the outcomes of a task that has left its try block
C9_Outcomes ==
    /\ \A t \in Tasks :
         /\ retries[t] <= max_retries
         /\ (Settled(t) /\ wres[t] = "ok") =>
              /\ Logged(Msg("Success", t)) = 1
              /\ Logged(Msg("TransportFailure", t)) = 0
              /\ HttpFailures(t) = 0
         /\ (Exhausted(t) /\ r[t] = 0) =>
              /\ Logged(Msg("TransportFailure", t)) = 1
              /\ HttpFailures(t) = 0
              /\ Logged(Msg("Success", t)) = 0
         /\ (Exhausted(t) /\ r[t] # 0) =>
              /\ Logged(HttpFailure(t, r[t])) = 1
              /\ HttpFailures(t) = 1
              /\ Logged(Msg("TransportFailure", t)) = 0
              /\ Logged(Msg("Success", t)) = 0
    /\ downloaded_files =
         Cardinality({t \in Tasks :
                         pc[t] = "emit" \/ Logged(Msg("Success", t)) = 1})

\* a fetch gives up on a retryable failure only on attempt 1 + max_retries
C9_GivesUpLast ==
    \A t \in Tasks :
        (pc[t] = "get" /\ pc'[t] = "finally"
           /\ (r'[t] = 0 \/ r'[t] \in status_forcelist)) =>
            retries[t] + 1 = 1 + max_retries

\* C9 amended: at most 1 + max_retries attempts are made per task (at most
\* max_retries retries); a task that fetched 200 and stored its file counts
\* as Success and has no failure event; a budget exhausted by connection/read
\* errors gives exactly one TransportFailure, one exhausted by retryable
\* statuses gives exactly one HttpFailure with the last status; neither
\* increments downloaded_files.
C9_RetryOutcomes == [](C9_Outcomes) /\ [][C9_GivesUpLast]_vars

C9_Witness ==
    \E t, u \in Tasks :
        /\ pc[t] = "write" /\ retries[t] = max_retries
        /\ Exhausted(u) /\ r[u] = 0 /\ Logged(Msg("TransportFailure", u)) = 1
        /\ \E v \in Tasks : Settled(v) /\ wres[v] = "ok"

\* ---- C10 --------------------------------------------------------------------------
\* C10: a task whose final response status is not 200 never opens its
\* local_path for writing: the file keeps its previous contents.
C10_FailedStatusLeavesFile ==
    \A t \in Dispatched :
        r[t] \notin {0, 200} =>
            wres[t] = "none" /\ disk[files_to_download[t + 1]] = "old"

C10_Witness ==
    \E t, u \in Dispatched :
        /\ r[t] = 404 /\ Finished(t)
        /\ disk[files_to_download[u + 1]] = "new"

\* ---- C11 --------------------------------------------------------------------------
\* C11: a task whose fetch failed in any way, a transport error raised while
\* the body of a 200 response is being streamed included, leaves the file at
\* its local_path with the contents it had before the run.
C11_FailedFetchLeavesFile ==
    \A t \in Dispatched :
        (Finished(t) /\ Failed(t)) => disk[files_to_download[t + 1]] = "old"

\* ---- C12 --------------------------------------------------------------------------
\* an exception is propagating out of some download_file call
Escaped(t) == pc[t] = "raised"

\* C12: an exception that escapes one download_file call is caught by run at
\* future.result() and logged once as an unhandled worker error; run still
\* returns, and by then every other dispatched task has run to its own end.
C12_EscapeIsLoggedAndIsolated ==
    /\ [](\A t \in Tasks :
            /\ Logged(Msg("Unhandled", t)) <= 1
            /\ Logged(Msg("Unhandled", t)) = 1 => Escaped(t))
    /\ (\E t \in Tasks : Escaped(t)) ~>
          (/\ runpc = "done"
           /\ \A u \in Dispatched :
                /\ pc[u] \in {"done", "raised"}
                /\ Escaped(u) => Logged(Msg("Unhandled", u)) = 1)

C12_Witness ==
    /\ runpc = "done"
    /\ total_files = 3
    /\ Escaped(0) /\ mk[0] = "fail" /\ Logged(Msg("Unhandled", 0)) = 1
    /\ Escaped(1) /\ wres[1] = "writeerr" /\ Logged(Msg("Unhandled", 1)) = 1
    /\ pc[2] = "done" /\ Stored(2) /\ Logged(Msg("Success", 2)) = 1

\* ---- C13 --------------------------------------------------------------------------
\* C13: whatever is chosen in the window, neither self.headers after __init__
\* nor the headers passed to session.get holds one of the marker keys
\* _dynamic_referer, _identity_encoding, _connection_close.
C13_NoMarkerKeys ==
    /\ startpc \in {"started", "mapped", "requested"} =>
           DOMAIN headers \cap Markers = {}
    /\ startpc = "requested" => DOMAIN req_headers \cap Markers = {}

\* ---- C14 --------------------------------------------------------------------------
\* C14: the progress value emitted for the i-th counted download is
\* floor(100 * i / total_files), an integer in 0..100.
C14_ProgressIsFloor ==
    \A i \in 1..Len(progress) :
        /\ progress[i] = (100 * i) \div total_files
        /\ progress[i] \in 0..100

\* ---- C15 --------------------------------------------------------------------------
\* the path of the file relative to local_root, its components joined by "/"
SlashedRelativePath(tr) ==
    [i \in 1..(2 * tr.depth) |-> IF i % 2 = 1 THEN "d" ELSE "/"] \o tr.file

\* C15: remote_url is the typed remote root without its trailing slashes,
\* then "/", then the path of the file relative to local_root with "/"
\* between its components; no "//" arises where the two are joined.
C15_RemoteUrlIsRootSlashPath ==
    startpc \in {"mapped", "requested"} =>
        remote_url = ui.remote_base \o <<"/">> \o SlashedRelativePath(tree)

\* ---- C18 --------------------------------------------------------------------------
\* the text of s up to and including its last "/"
UpToLastSlash(s) ==
    SubSeq(s, 1, CHOOSE i \in 1..Len(s) :
                     s[i] = "/" /\ \A j \in (i + 1)..Len(s) : s[j] # "/")

\* C18: the request carries the Referer typed in the window, unchanged,
\* whenever one was typed, whether or not the dynamic referer box is ticked;
\* it carries the remote_url cut after its last "/" when none was typed and
\* the box is ticked; and no Referer otherwise.
C18_RefererChoice ==
    startpc = "requested" =>
        IF strip(ui.referer_input) # <<>>
        THEN /\ "Referer" \in DOMAIN req_headers
             /\ req_headers["Referer"] = strip(ui.referer_input)
        ELSE IF ui.cb_dynamic_ref
        THEN /\ "Referer" \in DOMAIN req_headers
             /\ req_headers["Referer"] = UpToLastSlash(remote_url)
        ELSE "Referer" \notin DOMAIN req_headers

C18_ExplicitKept ==
    /\ startpc = "requested"
    /\ ui.cb_dynamic_ref
    /\ ui.referer_input # <<>>
    /\ tree.depth = 1
    /\ req_headers["Referer"] = ui.referer_input

C18_Witness ==
    /\ startpc = "requested"
    /\ ui.cb_dynamic_ref
    /\ ui.referer_input = <<>>
    /\ remote_url = <<"https", ":", "/", "/", "h", "/", "p", "/", "d", "/", "a.jpg">>
    /\ req_headers["Referer"] = <<"https", ":", "/", "/", "h", "/", "p", "/", "d", "/">>

\* ---- C16 --------------------------------------------------------------------------
\* C16: every change a worker makes to downloaded_files or to the status of a
\* slot is made inside the critical section of self.lock, so no such change
\* happens while another worker holds the lock.
C16_MutationsUnderLock ==
    [][(downloaded_files' # downloaded_files
          \/ status_update' # status_update) => lock = NoTask]_vars

\* ---- C17 --------------------------------------------------------------------------
\* number of log events that report the outcome of task t
LogEvents(t) ==
    Logged(Msg("Success", t)) + Logged(Msg("TransportFailure", t))
        + Logged(HttpFailure(t, 404)) + Logged(HttpFailure(t, 503))
        + Logged(Msg("Unhandled", t))

\* C17: a download_file call that returned has logged its outcome (Success,
\* HttpFailure or TransportFailure), and when run has returned every
\* dispatched task, those whose call raised included, has exactly one log
\* event.
C17_EveryOutcomeLogged ==
    \A t \in Dispatched :
        /\ pc[t] = "done" => LogEvents(t) = 1
        /\ runpc = "done" => LogEvents(t) = 1

C17_Witness ==
    /\ runpc = "done"
    /\ total_files = 3
    /\ \E t, u, v \in Dispatched :
         /\ Logged(Msg("Success", t)) = 1
         /\ Logged(HttpFailure(u, 404)) = 1
         /\ Logged(Msg("TransportFailure", v)) = 1

\* ---- C19 --------------------------------------------------------------------------
\* C19: run returns, and not before every dispatched download_file call has
\* returned or raised; the lock is held only between its acquisition at line
\* 167 and the log at line 171, never by a call that is fetching or writing
\* its file.
C19_RunWaitsAndReturns ==
    /\ (runpc = "start") ~> (runpc = "done")
    /\ [](runpc = "done" =>
            \A t \in Dispatched : pc[t] \in {"done", "raised"})
    /\ [](\A t \in Tasks :
            /\ lock = t => pc[t] = "emit"
            /\ pc[t] \in {"get", "write"} => lock # t)

C19_Witness ==
    /\ runpc = "done"
    /\ total_files = 3
    /\ downloaded_files = 2
    /\ \E t \in Dispatched : pc[t] = "raised" /\ t \in collected

====
